---- MODULE Spec2Model ----
(***************************************************************************)
(* Authenticated dispatch and streaming decode of the GigaChat client.     *)
(*                                                                         *)
(* The model follows src/src/gigachat/client.py (token handling, the       *)
(* retry-once dispatch of _decorator / stream and their async twins) and   *)
(* src/src/gigachat/api/stream_chat.py, post_chat.py (response checks and  *)
(* the line decoder).  Text is modelled as sequences of one-character      *)
(* strings so that str.partition is computed, not assumed.                 *)
(***************************************************************************)
EXTENDS Integers, Sequences, FiniteSets, TLC

VARIABLES settings, _access_token, pc, sub, op, response, lines, trace,
          outcome, startTok, now, checkedAt, inputs, runs

\* the client and its calls
client == <<settings, _access_token, pc, sub, op, response, lines, trace,
            outcome, startTok>>

\* the wall clock, the instant of each call's validity check (the code reads
\* neither), and the inputs and results of the dispatch paths run side by side
aux == <<now, checkedAt, inputs, runs>>

vars == <<settings, _access_token, pc, sub, op, response, lines, trace,
          outcome, startTok, now, checkedAt, inputs, runs>>

(***************************************************************************)
(* Bounds                                                                  *)
(***************************************************************************)
\* lines the server sends on one streamed response before it must end
MaxLines == 3

\* ticks of the wall clock
MaxTime == 2

(***************************************************************************)
(* Text                                                                    *)
(***************************************************************************)
Data == <<"d", "a", "t", "a">>
ColonSpace == <<":", " ">>
Semicolon == <<";">>
Done == <<"[", "D", "O", "N", "E", "]">>
Json1 == <<"{", "i", "d", ":", " ", "1", "}">>
Json2 == <<"{", "i", "d", ":", " ", "2", "}">>

\* the lines a server may send
LDone == Data \o ColonSpace \o Done
LChunk1 == Data \o ColonSpace \o Json1
LChunk2 == Data \o ColonSpace \o Json2
LBad == Data \o ColonSpace \o <<"{", "i", "d">>
LEvent == <<"e", "v", "e", "n", "t">> \o ColonSpace \o <<"x">>
LNoSpace == Data \o <<":">> \o Json1
LBlank == <<>>

LineSet == {LDone, LChunk1, LChunk2, LBad, LEvent, LNoSpace, LBlank}

EVENT_STREAM == <<"t", "e", "x", "t", "/", "e", "v", "e", "n", "t", "-",
                  "s", "t", "r", "e", "a", "m">>
CtCharset == EVENT_STREAM \o <<";", " ", "c", "h", "a", "r", "s", "e", "t",
                               "=", "u", "t", "f", "-", "8">>
CtJson == <<"a", "p", "p", "l", "i", "c", "a", "t", "i", "o", "n", "/",
            "j", "s", "o", "n">>
CtPrefix == <<"t", "e", "x", "t", "/", "e", "v", "e", "n", "t">>
CtMissing == <<>>

\* the Content-Type header values a server may declare
ContentTypes == {EVENT_STREAM, CtCharset, CtJson, CtPrefix, CtMissing}

\* str.partition(sep): <<head, sep, tail>> at the first occurrence of sep,
\* <<s, "", "">> when sep does not occur
Partition(s, sep) ==
    LET n == Len(sep)
        hits == {i \in 1..(Len(s) - n + 1) : SubSeq(s, i, i + n - 1) = sep}
    IN IF hits = {}
       THEN <<s, <<>>, <<>>>>
       ELSE LET i == CHOOSE k \in hits : \A j \in hits : k <= j
            IN <<SubSeq(s, 1, i - 1), sep, SubSeq(s, i + n, Len(s))>>

(***************************************************************************)
(* Values                                                                  *)
(***************************************************************************)
None == "None"

OK == 200
UNAUTHORIZED == 401
StatusCodes == {OK, UNAUTHORIZED, 403, 500}

\* credentials a token endpoint may hand out, and their expiry stamps
TokenValues == {"t1", "t2"}
Expiries == {1}
StaticToken == "s0"

NoToken == [held |-> FALSE, access_token |-> None, expires_at |-> 0]

AccessToken(tok, exp) == [held |-> TRUE, access_token |-> tok, expires_at |-> exp]

Calls == {1, 2}
SeqCalls == {1}

NonStreamOps == {"get_models", "get_model", "chat"}
Ops == NonStreamOps \cup {"stream"}

IsStream(o) == o = "stream"

NoResponse == [status_code |-> 0, content_type |-> <<>>]

Event(name, a) == [ev |-> name, arg |-> a]

(***************************************************************************)
(* _BaseClient                                                             *)
(***************************************************************************)
\* a token property that forgets the use_auth switch
TokenIgnoringUseAuth ==
    IF _access_token.held THEN _access_token.access_token ELSE None

\* property token
Token == IF settings.use_auth /\ _access_token.held
         THEN _access_token.access_token
         ELSE None

\* a validity check that never trusts the held token
CheckValidityTokenNever == FALSE

\* a validity check that also compares the expiry with the clock
CheckValidityTokenByExpiry == _access_token.held /\ _access_token.expires_at > now

\* _check_validity_token
CheckValidityToken == _access_token.held

\* the Authorization header of _get_kwargs: the bearer credential or None
Authorization(tok) == IF tok # None /\ tok # "" THEN tok ELSE None

(***************************************************************************)
(* Response checks                                                         *)
(***************************************************************************)
\* post_chat._build_response; bodyOk: the body parses as a ChatCompletion
BuildResponse(status, bodyOk) ==
    IF status = OK
    THEN IF bodyOk THEN "OK" ELSE "DecodeError"
    ELSE IF status = UNAUTHORIZED
         THEN "AuthenticationError"
         ELSE "ResponseError"

\* get_models / get_model _build_response
BuildModelsResponse(status, bodyOk) ==
    IF status = OK
    THEN IF bodyOk THEN "OK" ELSE "DecodeError"
    ELSE IF status = UNAUTHORIZED
         THEN "AuthenticationError"
         ELSE "ResponseError"

\* a content-type check that reports a mismatch as an authentication failure
CheckContentTypeAsAuth(resp) ==
    LET content_type == Partition(resp.content_type, Semicolon)[1]
    IN IF content_type # EVENT_STREAM THEN "AuthenticationError" ELSE "OK"

CheckContentType(resp) ==
    LET content_type == Partition(resp.content_type, Semicolon)[1]
    IN IF content_type # EVENT_STREAM THEN "TransportError" ELSE "OK"

CheckResponse(resp) ==
    IF resp.status_code = OK
    THEN CheckContentType(resp)
    ELSE IF resp.status_code = UNAUTHORIZED
         THEN "AuthenticationError"
         ELSE "ResponseError"

\* ChatCompletionChunk.parse_raw: the chunk, or "error"
ParseRaw(value) ==
    IF value = Json1 THEN "c1"
    ELSE IF value = Json2 THEN "c2"
    ELSE "error"

\* a decoder that drops a data line it cannot parse
ParseChunkSkipsMalformed(line) ==
    LET p == Partition(line, ColonSpace)
        name == p[1]
        value == p[3]
    IN IF name = Data /\ value # Done /\ ParseRaw(value) # "error"
       THEN ParseRaw(value)
       ELSE None

\* _parse_chunk: a chunk, None, or "error" when parse_raw raises
ParseChunk(line) ==
    LET p == Partition(line, ColonSpace)
        name == p[1]
        value == p[3]
    IN IF name = Data
       THEN IF value = Done THEN None ELSE ParseRaw(value)
       ELSE None

(***************************************************************************)
(* Exception routing of _decorator / stream: the try block encloses only   *)
(* the first attempt and catches only AuthenticationError                  *)
(***************************************************************************)
\* handlers that catch too much, too late, or nothing
CaughtAnyError(pcv, err) == pcv = "try"

CaughtInRetryToo(pcv, err) == err = "AuthenticationError"

CaughtNever(pcv, err) == FALSE

Caught(pcv, err) == pcv = "try" /\ err = "AuthenticationError"

\* control leaves the attempt at pc[c] with result res ("OK" or an error)
Leave(c, res, events) ==
    /\ trace' = [trace EXCEPT ![c] = @ \o events]
    /\ IF res # "OK" /\ Caught(pc[c], res)
       THEN /\ pc' = [pc EXCEPT ![c] = "reset"]
            /\ outcome' = outcome
       ELSE /\ pc' = [pc EXCEPT ![c] = "done"]
            /\ outcome' = [outcome EXCEPT ![c] = res]

(***************************************************************************)
(* Initial state: a freshly constructed client                             *)
(***************************************************************************)
Settings == [use_auth : BOOLEAN, credentials : BOOLEAN, user : BOOLEAN,
             password : BOOLEAN, access_token : BOOLEAN]

InitClient ==
    /\ settings \in Settings
    /\ _access_token = IF settings.access_token
                      THEN AccessToken(StaticToken, 0)
                      ELSE NoToken
    /\ pc = [c \in Calls |-> "idle"]
    /\ sub = [c \in Calls |-> "none"]
    /\ op = [c \in Calls |-> "chat"]
    /\ response = [c \in Calls |-> NoResponse]
    /\ lines = [c \in Calls |-> <<>>]
    /\ trace = [c \in Calls |-> <<>>]
    /\ outcome = [c \in Calls |-> "none"]
    /\ startTok = [c \in Calls |-> NoToken]

\* nothing is timed and no paths are compared
AuxIdle ==
    /\ now = 0
    /\ checkedAt = [c \in Calls |-> 0]
    /\ inputs = <<>>
    /\ runs = <<>>

Init == InitClient /\ AuxIdle

(***************************************************************************)
(* Actions                                                                 *)
(***************************************************************************)
\* a caller invokes get_models / get_model / chat / stream
Start(c, o) ==
    /\ pc[c] \in {"idle", "done"}
    /\ pc' = [pc EXCEPT ![c] = "check"]
    /\ op' = [op EXCEPT ![c] = o]
    /\ sub' = [sub EXCEPT ![c] = "none"]
    /\ response' = [response EXCEPT ![c] = NoResponse]
    /\ lines' = [lines EXCEPT ![c] = <<>>]
    /\ trace' = [trace EXCEPT ![c] = <<>>]
    /\ outcome' = [outcome EXCEPT ![c] = "none"]
    /\ startTok' = [startTok EXCEPT ![c] = _access_token]
    /\ UNCHANGED <<settings, _access_token>>
    /\ UNCHANGED aux

\* if self._use_auth: if self._check_validity_token():
CheckAuth(c) ==
    /\ pc[c] = "check"
    /\ IF ~settings.use_auth
       THEN /\ pc' = [pc EXCEPT ![c] = "final"]
            /\ trace' = trace
       ELSE IF CheckValidityToken
            THEN /\ pc' = [pc EXCEPT ![c] = "try"]
                 /\ trace' = [trace EXCEPT ![c] = Append(@, Event("check", "valid"))]
            ELSE /\ pc' = [pc EXCEPT ![c] = "update"]
                 /\ trace' = [trace EXCEPT ![c] = Append(@, Event("check", "invalid"))]
    /\ checkedAt' = [checkedAt EXCEPT ![c] = now]
    /\ UNCHANGED <<settings, _access_token, sub, op, response, lines, outcome, startTok>>
    /\ UNCHANGED <<now, inputs, runs>>

\* call() of _decorator: one request, classified by _build_response; the
\* server answers with one of statuses
AttemptWith(c, statuses) ==
    /\ pc[c] \in {"try", "final"}
    /\ ~IsStream(op[c])
    /\ \E status \in statuses, bodyOk \in BOOLEAN :
         LET res == IF op[c] = "chat"
                    THEN BuildResponse(status, bodyOk)
                    ELSE BuildModelsResponse(status, bodyOk)
         IN Leave(c, res, <<Event("attempt", Authorization(Token)),
                            Event("result", res)>>)
    /\ UNCHANGED <<settings, _access_token, sub, op, response, lines, startTok>>
    /\ UNCHANGED aux

Attempt(c) == AttemptWith(c, StatusCodes)

\* an except clause that forgets to discard the token
ResetTokenKeeps(c) ==
    /\ pc[c] = "reset"
    /\ _access_token' = _access_token
    /\ trace' = [trace EXCEPT ![c] = Append(@, Event("invalidate", None))]
    /\ pc' = [pc EXCEPT ![c] = "update"]
    /\ UNCHANGED <<settings, sub, op, response, lines, outcome, startTok>>
    /\ UNCHANGED aux

\* self._reset_token() in the except clause
ResetToken(c) ==
    /\ pc[c] = "reset"
    /\ _access_token' = NoToken
    /\ trace' = [trace EXCEPT ![c] = Append(@, Event("invalidate", None))]
    /\ pc' = [pc EXCEPT ![c] = "update"]
    /\ UNCHANGED <<settings, sub, op, response, lines, outcome, startTok>>
    /\ UNCHANGED aux

(***************************************************************************)
(* Token exchanges (gigachat.api.post_auth / post_token)                   *)
(***************************************************************************)
\* post_auth.sync: the AccessToken the OAuth endpoint returns
PostAuth(tok, exp) == AccessToken(tok, exp)

\* post_token.sync: the Token the password endpoint returns
PostToken(tok, exp) == [tok |-> tok, exp |-> exp]

\* what either exchange raises on a non-success status
ExchangeFailure == "AuthBackendError"

_build_access_token(token) == AccessToken(token.tok, token.exp)

\* an _update_token that tries the password exchange first
StrategyPasswordFirst ==
    IF settings.user /\ settings.password
    THEN "password"
    ELSE IF settings.credentials
         THEN "oauth"
         ELSE "none"

\* the branch _update_token takes
Strategy ==
    IF settings.credentials
    THEN "oauth"
    ELSE IF settings.user /\ settings.password
         THEN "password"
         ELSE "none"

\* self._update_token(); the token endpoint succeeds or not as oks allows
UpdateTokenWith(c, oks) ==
    /\ pc[c] = "update"
    /\ IF Strategy = "none"
       THEN /\ _access_token' = _access_token
            /\ trace' = [trace EXCEPT ![c] = @ \o <<Event("refresh", "none"),
                                                    Event("refreshed", None)>>]
            /\ pc' = [pc EXCEPT ![c] = "final"]
            /\ outcome' = outcome
       ELSE \E ok \in oks, tok \in TokenValues, exp \in Expiries :
              IF ok
              THEN /\ _access_token' = IF Strategy = "oauth"
                                      THEN PostAuth(tok, exp)
                                      ELSE _build_access_token(PostToken(tok, exp))
                   /\ trace' = [trace EXCEPT ![c] = @ \o <<Event("refresh", Strategy),
                                                           Event("exchange", Strategy),
                                                           Event("refreshed", tok)>>]
                   /\ pc' = [pc EXCEPT ![c] = "final"]
                   /\ outcome' = outcome
              ELSE /\ _access_token' = _access_token
                   /\ trace' = [trace EXCEPT ![c] = @ \o <<Event("refresh", Strategy),
                                                           Event("exchange", Strategy)>>]
                   /\ pc' = [pc EXCEPT ![c] = "done"]
                   /\ outcome' = [outcome EXCEPT ![c] = ExchangeFailure]
    /\ UNCHANGED <<settings, sub, op, response, lines, startTok>>
    /\ UNCHANGED aux

\* an _update_token that swallows the failure of the exchange and goes on
UpdateTokenSwallowsFailure(c) ==
    /\ pc[c] = "update"
    /\ Strategy # "none"
    /\ trace' = [trace EXCEPT ![c] = @ \o <<Event("refresh", Strategy),
                                            Event("exchange", Strategy)>>]
    /\ pc' = [pc EXCEPT ![c] = "final"]
    /\ UNCHANGED <<settings, _access_token, sub, op, response, lines, outcome, startTok>>
    /\ UNCHANGED aux

UpdateToken(c) == UpdateTokenWith(c, BOOLEAN)

(***************************************************************************)
(* stream_chat.sync inside stream(): open, check, read lines               *)
(***************************************************************************)
\* with client.stream(**kwargs) as response: the request goes out with the
\* credential read now, the status line and headers come back
StreamOpenWith(c, statuses) ==
    /\ pc[c] \in {"try", "final"}
    /\ IsStream(op[c])
    /\ sub[c] = "none"
    /\ \E status \in statuses, ct \in ContentTypes :
         response' = [response EXCEPT ![c] = [status_code |-> status, content_type |-> ct]]
    /\ sub' = [sub EXCEPT ![c] = "opened"]
    /\ lines' = [lines EXCEPT ![c] = <<>>]
    /\ trace' = [trace EXCEPT ![c] = @ \o <<Event("attempt", Authorization(Token)),
                                            Event("open", None)>>]
    /\ UNCHANGED <<settings, _access_token, pc, op, outcome, startTok>>
    /\ UNCHANGED aux

StreamOpen(c) == StreamOpenWith(c, StatusCodes)

\* a stream whose failed check leaves the response open
StreamCheckLeaks(c) ==
    /\ sub[c] = "opened"
    /\ LET res == CheckResponse(response[c])
       IN IF res = "OK"
          THEN /\ sub' = [sub EXCEPT ![c] = "iter"]
               /\ trace' = [trace EXCEPT ![c] = Append(@, Event("result", res))]
               /\ UNCHANGED <<pc, outcome>>
          ELSE /\ sub' = [sub EXCEPT ![c] = "none"]
               /\ Leave(c, res, <<Event("result", res)>>)
    /\ UNCHANGED <<settings, _access_token, op, response, lines, startTok>>
    /\ UNCHANGED aux

\* _check_response(response); a raise leaves the with block, which closes
\* the response before the exception reaches stream()
StreamCheck(c) ==
    /\ sub[c] = "opened"
    /\ LET res == CheckResponse(response[c])
       IN IF res = "OK"
          THEN /\ sub' = [sub EXCEPT ![c] = "iter"]
               /\ trace' = [trace EXCEPT ![c] = Append(@, Event("result", res))]
               /\ UNCHANGED <<pc, outcome>>
          ELSE /\ sub' = [sub EXCEPT ![c] = "none"]
               /\ Leave(c, res, <<Event("result", res), Event("release", None)>>)
    /\ UNCHANGED <<settings, _access_token, op, response, lines, startTok>>
    /\ UNCHANGED aux

\* for line in response.iter_lines(): if chunk := _parse_chunk(line): yield chunk
StreamLine(c) ==
    /\ sub[c] = "iter"
    /\ Len(lines[c]) < MaxLines
    /\ \E line \in LineSet :
         LET chunk == ParseChunk(line)
         IN /\ lines' = [lines EXCEPT ![c] = Append(@, line)]
            /\ IF chunk = "error"
               THEN /\ sub' = [sub EXCEPT ![c] = "none"]
                    /\ Leave(c, "DecodeError", <<Event("fail", "DecodeError"),
                                                 Event("release", None)>>)
               ELSE /\ trace' = [trace EXCEPT ![c] =
                                   IF chunk # None THEN Append(@, Event("chunk", chunk)) ELSE @]
                    /\ UNCHANGED <<sub, pc, outcome>>
    /\ UNCHANGED <<settings, _access_token, op, response, startTok>>
    /\ UNCHANGED aux

\* iter_lines is exhausted: the with block closes the response, the generator
\* ends, stream() returns
StreamEnd(c) ==
    /\ sub[c] = "iter"
    /\ sub' = [sub EXCEPT ![c] = "none"]
    /\ Leave(c, "OK", <<Event("release", None)>>)
    /\ UNCHANGED <<settings, _access_token, op, response, lines, startTok>>
    /\ UNCHANGED aux

\* iter_lines raises because the connection broke while the body was read
StreamReadError(c) ==
    /\ sub[c] = "iter"
    /\ sub' = [sub EXCEPT ![c] = "none"]
    /\ Leave(c, "ReadError", <<Event("fail", "ReadError"), Event("release", None)>>)
    /\ UNCHANGED <<settings, _access_token, op, response, lines, startTok>>
    /\ UNCHANGED aux

\* the consumer holds a chunk and closes the sequence instead of asking for
\* the next one: GeneratorExit is raised at the yield, leaves the with block
\* (which closes the response) and passes the except AuthenticationError clause
StreamClose(c) ==
    /\ sub[c] = "iter"
    /\ Len(lines[c]) > 0
    /\ ParseChunk(lines[c][Len(lines[c])]) \notin {None, "error"}
    /\ sub' = [sub EXCEPT ![c] = "none"]
    /\ Leave(c, "GeneratorExit", <<Event("fail", "GeneratorExit"), Event("release", None)>>)
    /\ UNCHANGED <<settings, _access_token, op, response, lines, startTok>>
    /\ UNCHANGED aux

(***************************************************************************)
(* Specification: one logical call at a time on one client                 *)
(***************************************************************************)
Next ==
    \E c \in SeqCalls :
        \/ \E o \in Ops : Start(c, o)
        \/ CheckAuth(c)
        \/ Attempt(c)
        \/ ResetToken(c)
        \/ UpdateToken(c)
        \/ StreamOpen(c)
        \/ StreamCheck(c)
        \/ StreamLine(c)
        \/ StreamEnd(c)
        \/ StreamReadError(c)
        \/ StreamClose(c)

Spec == Init /\ [][Next]_vars

TypeOK ==
    /\ settings \in Settings
    /\ \A c \in Calls : pc[c] \in {"idle", "check", "try", "reset", "update", "final", "done"}
    /\ \A c \in Calls : sub[c] \in {"none", "opened", "iter"}

(***************************************************************************)
(* Reading the call trace                                                  *)
(***************************************************************************)
Sel(c, name) == SelectSeq(trace[c], LAMBDA e : e.ev = name)

Count(c, name) == Len(Sel(c, name))

Positions(c, names) == {i \in DOMAIN trace[c] : trace[c][i].ev \in names}

\* the classification of the n-th attempt's response
Result(c, n) == Sel(c, "result")[n].arg

FirstResultIs(c, res) == Count(c, "result") >= 1 /\ Result(c, 1) = res

\* the credential the n-th attempt carried
Sent(c, n) == Sel(c, "attempt")[n].arg

\* _update_token returned after installing a token
Installed(c) == \E i \in DOMAIN trace[c] :
                    trace[c][i].ev = "refreshed" /\ trace[c][i].arg # None

InstalledToken(c) == Sel(c, "refreshed")[1].arg

Running(c) == pc[c] \notin {"idle"}

HeldAtStart(c) == settings.use_auth /\ startTok[c].held

\* C1: a call that starts with authentication on and a token held makes one
\* attempt when its first attempt succeeds, makes two attempts exactly when
\* the first attempt raised AuthenticationError and _update_token returned,
\* and calls _update_token at most once.
C1_AttemptsAndRefreshes ==
    \A c \in Calls :
        (Running(c) /\ HeldAtStart(c)) =>
            /\ Count(c, "attempt") <= 2
            /\ Count(c, "refresh") <= 1
            /\ FirstResultIs(c, "OK") => Count(c, "attempt") = 1
            /\ pc[c] = "done" =>
                 /\ Count(c, "attempt") >= 1
                 /\ Count(c, "attempt") = 2 <=>
                        /\ FirstResultIs(c, "AuthenticationError")
                        /\ Count(c, "refreshed") = 1

C1_Witness ==
    \E c \in Calls :
        /\ pc[c] = "done" /\ HeldAtStart(c)
        /\ Count(c, "attempt") = 2
        /\ Count(c, "refresh") = 1
        /\ outcome[c] = "OK"

\* C2: an AuthenticationError from the attempt that follows _update_token
\* ends the call with that error: nothing is invalidated, refreshed or
\* attempted after it, and no call makes more than two attempts.
C2_RetryErrorPropagates ==
    \A c \in Calls :
        /\ Count(c, "attempt") <= 2
        /\ \A i \in DOMAIN trace[c] :
             ( /\ trace[c][i] = Event("result", "AuthenticationError")
               /\ \E j \in 1..(i - 1) : trace[c][j].ev = "refresh" ) =>
                 /\ pc[c] = "done"
                 /\ outcome[c] = "AuthenticationError"
                 /\ \A k \in (i + 1)..Len(trace[c]) : trace[c][k].ev = "release"

C2_Witness ==
    \E c \in Calls :
        /\ pc[c] = "done" /\ outcome[c] = "AuthenticationError"
        /\ Count(c, "attempt") = 2
        /\ Result(c, 1) = "AuthenticationError"
        /\ Result(c, 2) = "AuthenticationError"

\* C3: with use_auth off a call makes exactly one attempt, without a
\* credential even when a static access_token was configured, never calls
\* _update_token, never touches the held token and hands the caller whatever
\* the attempt raised.
C3_AuthDisabled ==
    ~settings.use_auth =>
        /\ _access_token = IF settings.access_token
                           THEN AccessToken(StaticToken, 0)
                           ELSE NoToken
        /\ \A c \in Calls :
             /\ Count(c, "attempt") <= 1
             /\ \A i \in DOMAIN trace[c] :
                  /\ trace[c][i].ev \notin {"check", "invalidate", "refresh", "exchange", "refreshed"}
                  /\ trace[c][i].ev = "attempt" => trace[c][i].arg = None
             /\ pc[c] = "done" =>
                  /\ Count(c, "attempt") = 1
                  /\ ~FirstResultIs(c, "OK") => outcome[c] = Result(c, 1)
                  /\ (FirstResultIs(c, "OK") /\ Count(c, "fail") = 0) => outcome[c] = "OK"

C3_Witness ==
    \E c \in Calls :
        /\ ~settings.use_auth /\ settings.access_token
        /\ pc[c] = "done" /\ outcome[c] = "AuthenticationError"
        /\ Sent(c, 1) = None

\* C4 as claimed: whenever a call on a client with authentication on saw an
\* AuthenticationError from one of its attempts, no token is held when the
\* call finishes.
C4_TokenAbsentAfterAuthError ==
    \A c \in Calls :
        ( /\ settings.use_auth /\ pc[c] = "done"
          /\ \E i \in DOMAIN trace[c] : trace[c][i] = Event("result", "AuthenticationError") )
        => ~_access_token.held

\* C4 amended: an AuthenticationError from the first attempt with a held token
\* discards the token at once; when the call finishes a token is held exactly
\* when this call's _update_token installed one, and it is that token. An
\* AuthenticationError from the attempt after the refresh discards nothing.
C4_TokenAfterAuthError ==
    \A c \in Calls :
        /\ (settings.use_auth /\ pc[c] = "update" /\ Count(c, "invalidate") = 1)
              => _access_token = NoToken
        /\ ( /\ settings.use_auth /\ pc[c] = "done"
             /\ \E i \in DOMAIN trace[c] : trace[c][i] = Event("result", "AuthenticationError") )
           => /\ _access_token.held <=> Installed(c)
              /\ Installed(c) => _access_token.access_token = InstalledToken(c)

C4_Witness ==
    \E c \in Calls :
        /\ pc[c] = "done" /\ outcome[c] = "AuthenticationError"
        /\ HeldAtStart(c)
        /\ Count(c, "invalidate") = 1
        /\ Installed(c)
        /\ _access_token.held

\* C5: in stream() nothing is invalidated, refreshed or reopened once a chunk
\* has been yielded; a failure after a chunk ends the call with that error.
C5_NoRetryAfterChunk ==
    \A c \in Calls :
        \A i \in DOMAIN trace[c] :
            trace[c][i].ev = "chunk" =>
                /\ \A k \in (i + 1)..Len(trace[c]) :
                     trace[c][k].ev \in {"chunk", "fail", "release"}
                /\ \A k \in (i + 1)..Len(trace[c]) :
                     trace[c][k].ev = "fail" =>
                        /\ pc[c] = "done"
                        /\ outcome[c] = trace[c][k].arg

C5_Witness ==
    \E c \in Calls :
        /\ pc[c] = "done" /\ op[c] = "stream" /\ HeldAtStart(c)
        /\ Count(c, "chunk") >= 1
        /\ outcome[c] = "ReadError"
        /\ Count(c, "attempt") = 1
        /\ _access_token = startTok[c]

(***************************************************************************)
(* What a line is, read off the line itself                                *)
(***************************************************************************)
\* the chunk a well-formed data line carries
WellFormed(line) == line \in {LChunk1, LChunk2}

ChunkOfLine(line) == IF line = LChunk1 THEN "c1" ELSE "c2"

\* a data line whose value is neither the sentinel nor a chunk
Malformed(line) == line = LBad

RECURSIVE ChunksOfLines(_)
ChunksOfLines(ls) ==
    IF ls = <<>>
    THEN <<>>
    ELSE LET rest == ChunksOfLines(SubSeq(ls, 1, Len(ls) - 1))
             last == ls[Len(ls)]
         IN IF WellFormed(last) THEN Append(rest, ChunkOfLine(last)) ELSE rest

\* the chunks handed to the consumer, in order
Yielded(c) == [i \in DOMAIN Sel(c, "chunk") |-> Sel(c, "chunk")[i].arg]

\* C6: once the line "data: [DONE]" has been read the chunk sequence ends
\* without an error and no later line yields a chunk.
C6_SentinelEndsSequence ==
    \A c \in Calls :
        \A i \in DOMAIN lines[c] :
            lines[c][i] = LDone =>
                /\ Yielded(c) = ChunksOfLines(SubSeq(lines[c], 1, i - 1))
                /\ outcome[c] # "DecodeError"

\* C7: a malformed data line ends the sequence with an error at that line,
\* after the chunks of all earlier well-formed data lines were yielded in
\* line order; no later line is read; lines that are not data lines yield
\* nothing and raise nothing.
C7_MalformedLineIsHardError ==
    \A c \in Calls :
        LET bad == {i \in DOMAIN lines[c] : Malformed(lines[c][i])}
        IN /\ Yielded(c) = ChunksOfLines(lines[c])
           /\ bad # {} =>
                /\ bad = {Len(lines[c])}
                /\ pc[c] = "done"
                /\ outcome[c] = "DecodeError"
           /\ outcome[c] = "DecodeError" =>
                \/ bad # {}
                \/ ~IsStream(op[c])

C7_Witness ==
    \E c \in Calls :
        /\ pc[c] = "done" /\ outcome[c] = "DecodeError"
        /\ Len(lines[c]) = 3
        /\ lines[c][3] = LBad
        /\ Yielded(c) = <<"c2">>
        /\ lines[c][1] \in {LNoSpace, LEvent, LBlank}

\* the header values whose content type is text/event-stream
DeclaresEventStream(header) == header \in {EVENT_STREAM, CtCharset}

\* the token the call's own trace accounts for
TokenByTrace(c) ==
    IF Installed(c)
    THEN InstalledToken(c)
    ELSE IF Count(c, "invalidate") > 0 THEN None ELSE startTok[c].access_token

\* C8: a stream response with status OK whose content type is not
\* text/event-stream ends the call with TransportError before any chunk; the
\* check's failure is followed by nothing but the release of the response:
\* no invalidation, no refresh, no second open.
C8_ContentTypeMismatch ==
    \A c \in Calls :
        ( /\ IsStream(op[c]) /\ sub[c] # "opened"
          /\ response[c].status_code = OK
          /\ ~DeclaresEventStream(response[c].content_type) )
        => /\ pc[c] = "done"
           /\ outcome[c] = "TransportError"
           /\ Count(c, "chunk") = 0
           /\ lines[c] = <<>>
           /\ Len(trace[c]) >= 2
           /\ trace[c][Len(trace[c]) - 1] = Event("result", "TransportError")
           /\ trace[c][Len(trace[c])] = Event("release", None)
           /\ _access_token.access_token = TokenByTrace(c)

C8_Witness ==
    \E c \in Calls :
        /\ pc[c] = "done" /\ outcome[c] = "TransportError"
        /\ HeldAtStart(c) /\ Strategy # "none"
        /\ response[c].content_type = CtJson
        /\ Count(c, "attempt") = 1
        /\ Count(c, "refresh") = 0
        /\ _access_token = startTok[c]

\* C9: with authentication on, a refresh strategy and no token held, a call
\* refreshes exactly once and only then makes its single attempt; when that
\* attempt succeeds the refreshed token stays held; a call that starts with a
\* held token and whose first attempt succeeds sends that token, does not
\* refresh and leaves it held.
C9_RefreshOnceThenReuse ==
    \A c \in Calls :
        /\ ( /\ Running(c) /\ settings.use_auth /\ Strategy # "none"
             /\ ~startTok[c].held )
           => /\ Count(c, "refresh") <= 1
              /\ Count(c, "attempt") <= 1
              /\ Count(c, "invalidate") = 0
              /\ \A i \in Positions(c, {"attempt"}) :
                    \E j \in 1..(i - 1) : trace[c][j].ev = "refreshed"
              /\ pc[c] \in {"final", "done"} => Count(c, "refresh") = 1
              /\ FirstResultIs(c, "OK") =>
                    /\ _access_token.held
                    /\ _access_token.access_token = InstalledToken(c)
                    /\ Sent(c, 1) = InstalledToken(c)
        /\ (Running(c) /\ HeldAtStart(c) /\ FirstResultIs(c, "OK"))
           => /\ Sent(c, 1) = startTok[c].access_token
              /\ Count(c, "refresh") = 0
              /\ Count(c, "attempt") = 1
              /\ _access_token = startTok[c]

C9_Witness ==
    \E c \in Calls :
        /\ pc[c] = "done" /\ outcome[c] = "OK"
        /\ settings.use_auth /\ Strategy # "none" /\ ~settings.access_token
        /\ startTok[c].held
        /\ Count(c, "refresh") = 0
        /\ Sent(c, 1) = startTok[c].access_token

\* the order of attempts, invalidations and refreshes in a call
Steps(c) ==
    LET s == SelectSeq(trace[c], LAMBDA e : e.ev \in {"attempt", "invalidate", "refresh"})
    IN [i \in DOMAIN s |-> s[i].ev]

IsPrefix(s, t) == Len(s) <= Len(t) /\ s = SubSeq(t, 1, Len(s))

\* C10: when the first attempt with a held token is rejected and a refresh
\* strategy is configured, the call invalidates, then refreshes once, then,
\* the refresh having returned a token, retries once with the credential the
\* refresh returned; when the retry succeeds the call succeeds and the
\* refreshed token is held afterwards.
C10_RejectedTokenIsRefreshed ==
    \A c \in Calls :
        ( /\ Running(c) /\ HeldAtStart(c) /\ Strategy # "none"
          /\ FirstResultIs(c, "AuthenticationError") )
        => /\ IsPrefix(Steps(c), <<"attempt", "invalidate", "refresh", "attempt">>)
           /\ Count(c, "exchange") <= 1
           /\ pc[c] = "done" => Count(c, "refresh") = 1
           /\ (pc[c] = "done" /\ Installed(c)) => Count(c, "attempt") = 2
           /\ Count(c, "attempt") = 2 =>
                 /\ Installed(c)
                 /\ Sent(c, 2) = InstalledToken(c)
           /\ (Count(c, "result") = 2 /\ Result(c, 2) = "OK") =>
                 /\ _access_token.held
                 /\ _access_token.access_token = InstalledToken(c)
                 /\ (pc[c] = "done" /\ Count(c, "fail") = 0) => outcome[c] = "OK"

C10_Witness ==
    \E c \in Calls :
        /\ pc[c] = "done" /\ outcome[c] = "OK"
        /\ HeldAtStart(c) /\ Strategy # "none"
        /\ Steps(c) = <<"attempt", "invalidate", "refresh", "attempt">>
        /\ Sent(c, 1) = startTok[c].access_token
        /\ Sent(c, 2) # Sent(c, 1)
        /\ _access_token.access_token = Sent(c, 2)

\* the exchange of this call's _update_token raised
RefreshFailed(c) == Count(c, "exchange") > Count(c, "refreshed")

\* stream responses of the call still open
OpenResponses(c) == Count(c, "open") - Count(c, "release")

\* C11: when the token exchange fails, its error is the call's outcome, no
\* attempt follows the failed refresh, and no token is held afterwards.
C11_FailedRefreshPropagates ==
    \A c \in Calls :
        RefreshFailed(c) =>
            /\ pc[c] = "done"
            /\ outcome[c] = ExchangeFailure
            /\ trace[c][Len(trace[c])].ev = "exchange"
            /\ Count(c, "exchange") = 1
            /\ _access_token = NoToken

C11_Witness ==
    \E c \in Calls :
        /\ pc[c] = "done" /\ outcome[c] = ExchangeFailure
        /\ HeldAtStart(c)
        /\ Count(c, "invalidate") = 1
        /\ Count(c, "attempt") = 1
        /\ ~_access_token.held

\* C12: a first attempt with a held token that fails with anything but
\* AuthenticationError ends the call with that failure: one attempt, no
\* refresh, the held token as it was.
C12_OtherFailurePropagates ==
    \A c \in Calls :
        (Running(c) /\ HeldAtStart(c)) =>
            /\ ( /\ Count(c, "result") >= 1
                 /\ Result(c, 1) \notin {"OK", "AuthenticationError"} )
               => /\ pc[c] = "done"
                  /\ outcome[c] = Result(c, 1)
                  /\ Count(c, "attempt") = 1
                  /\ Count(c, "refresh") = 0
                  /\ Count(c, "invalidate") = 0
                  /\ _access_token = startTok[c]
            /\ (FirstResultIs(c, "OK") /\ Count(c, "fail") > 0)
               => /\ pc[c] = "done"
                  /\ outcome[c] = Sel(c, "fail")[1].arg
                  /\ Count(c, "attempt") = 1
                  /\ Count(c, "refresh") = 0
                  /\ Count(c, "invalidate") = 0
                  /\ _access_token = startTok[c]

C12_Witness ==
    \E c \in Calls :
        /\ pc[c] = "done" /\ HeldAtStart(c) /\ Strategy # "none"
        /\ op[c] = "chat"
        /\ outcome[c] = "ResponseError"
        /\ Count(c, "attempt") = 1
        /\ _access_token = startTok[c]

OAuthConfigured == settings.credentials

PasswordConfigured == settings.user /\ settings.password

\* C17: every call of _update_token runs at most one exchange: the OAuth
\* exchange exactly when credentials is configured (also when user and
\* password are), else the password exchange exactly when user and password
\* both are, else none. A successful exchange replaces the held token by its
\* result; without a strategy the token stays as it was, absent.
C17_OneStrategyPerRefresh ==
    \A c \in Calls :
        /\ Count(c, "exchange") <= Count(c, "refresh")
        /\ Count(c, "refresh") <= 1
        /\ \A i \in DOMAIN trace[c] :
             /\ trace[c][i].ev = "exchange" =>
                  /\ i > 1 /\ trace[c][i - 1].ev = "refresh"
                  /\ trace[c][i].arg = "oauth" <=> OAuthConfigured
                  /\ trace[c][i].arg = "password" <=>
                        (~OAuthConfigured /\ PasswordConfigured)
             /\ ( /\ trace[c][i].ev = "refresh"
                  /\ pc[c] \in {"final", "done"} ) =>
                  ( Count(c, "exchange") = 1 <=>
                        (OAuthConfigured \/ PasswordConfigured) )
        /\ (pc[c] = "final" /\ Count(c, "refresh") = 1) =>
             IF OAuthConfigured \/ PasswordConfigured
             THEN /\ Installed(c)
                  /\ \E exp \in Expiries :
                        _access_token = AccessToken(InstalledToken(c), exp)
             ELSE /\ ~Installed(c)
                  /\ _access_token = NoToken

C17_Witness ==
    \E c \in Calls :
        /\ pc[c] = "final"
        /\ settings.credentials /\ settings.user /\ settings.password
        /\ startTok[c] = AccessToken(StaticToken, 0)
        /\ Count(c, "exchange") = 1
        /\ Sel(c, "exchange")[1].arg = "oauth"
        /\ _access_token.access_token = InstalledToken(c)
        /\ _access_token.expires_at # 0

\* C18: with authentication on, a static credential and no refresh strategy,
\* the only tokens ever held are the static one and none; once a first attempt
\* was rejected the token is absent, the retry goes out without a credential,
\* and every call that starts without a token makes one attempt without a
\* credential and leaves the token absent.
C18_StaticTokenIsNeverRestored ==
    ( /\ settings.use_auth /\ settings.access_token
      /\ ~OAuthConfigured /\ ~PasswordConfigured )
    => /\ _access_token \in {AccessToken(StaticToken, 0), NoToken}
       /\ \A c \in Calls :
            /\ Count(c, "invalidate") > 0 =>
                 /\ _access_token = NoToken
                 /\ Count(c, "attempt") = 2 => Sent(c, 2) = None
                 /\ pc[c] = "done" => Count(c, "attempt") = 2
            /\ (Running(c) /\ ~startTok[c].held) =>
                 /\ _access_token = NoToken
                 /\ Count(c, "attempt") <= 1
                 /\ Count(c, "attempt") = 1 => Sent(c, 1) = None
                 /\ pc[c] = "done" => Count(c, "attempt") = 1

C18_Witness ==
    \E c \in Calls :
        /\ settings.use_auth /\ settings.access_token
        /\ ~OAuthConfigured /\ ~PasswordConfigured
        /\ pc[c] = "done" /\ ~startTok[c].held
        /\ Sent(c, 1) = None
        /\ outcome[c] = "AuthenticationError"
        /\ _access_token = NoToken

\* C20: a streaming call has at most one response open at a time; a response
\* rejected at open is released before the token is invalidated, before the
\* refresh and before the second open; every finished call has released the
\* response it opened last.
C20_OneResponseAtATime ==
    \A c \in Calls :
        /\ OpenResponses(c) \in {0, 1}
        /\ OpenResponses(c) = 1 <=> sub[c] \in {"opened", "iter"}
        /\ pc[c] \in {"reset", "update", "done"} => OpenResponses(c) = 0
        /\ \A i \in Positions(c, {"invalidate", "refresh", "open"}) :
             LET before == SubSeq(trace[c], 1, i - 1)
             IN Len(SelectSeq(before, LAMBDA e : e.ev = "open"))
                  = Len(SelectSeq(before, LAMBDA e : e.ev = "release"))

C20_Witness ==
    \E c \in Calls :
        /\ pc[c] = "done" /\ op[c] = "stream" /\ outcome[c] = "DecodeError"
        /\ Count(c, "open") = 2
        /\ Count(c, "release") = 2
        /\ Count(c, "invalidate") = 1
        /\ Installed(c)

(***************************************************************************)
(* The four dispatch paths, each as a function of the configuration, the   *)
(* token held at the start and the outcomes the transport will give        *)
(***************************************************************************)
Outcomes == {"OK", "AuthenticationError", "ResponseError"}

\* what the n-th attempt and the token exchange will answer
InputSet == [attempts : [1..2 -> Outcomes], ok : BOOLEAN,
             tok : TokenValues, exp : Expiries]

Paths == {"_decorator", "_adecorator", "stream", "astream"}

\* the tokens a client of this configuration can hold between calls
ReachableTokens(cfg) ==
    (IF cfg.access_token THEN {AccessToken(StaticToken, 0)} ELSE {})
    \cup (IF cfg.use_auth \/ ~cfg.access_token THEN {NoToken} ELSE {})
    \cup (IF cfg.use_auth /\ (cfg.credentials \/ (cfg.user /\ cfg.password))
          THEN {AccessToken(t, e) : t \in TokenValues, e \in Expiries}
          ELSE {})

PathStart(tok) == [steps |-> <<>>, token |-> tok, n |-> 0, last |-> "none", out |-> "none"]

Say(r, events) == [r EXCEPT !.steps = @ \o events]

\* one request built from self.token, answered by the next outcome of in
Call(cfg, r, in) ==
    LET bearer == IF cfg.use_auth /\ r.token.held THEN r.token.access_token ELSE None
        res == in.attempts[r.n + 1]
    IN [Say(r, <<Event("attempt", Authorization(bearer)), Event("result", res)>>)
          EXCEPT !.n = @ + 1, !.last = res]

\* the value or exception of the last request reaches the caller
Return(r) == [r EXCEPT !.out = r.last]

ResetTokenOf(r) == [Say(r, <<Event("invalidate", None)>>) EXCEPT !.token = NoToken]

\* GigaChatSyncClient._update_token
UpdateTokenSync(cfg, r, in) ==
    IF cfg.credentials
    THEN IF in.ok
         THEN [Say(r, <<Event("refresh", "oauth"), Event("exchange", "oauth"),
                        Event("refreshed", in.tok)>>)
                 EXCEPT !.token = PostAuth(in.tok, in.exp)]
         ELSE [Say(r, <<Event("refresh", "oauth"), Event("exchange", "oauth")>>)
                 EXCEPT !.out = ExchangeFailure]
    ELSE IF cfg.user /\ cfg.password
         THEN IF in.ok
              THEN [Say(r, <<Event("refresh", "password"), Event("exchange", "password"),
                             Event("refreshed", in.tok)>>)
                      EXCEPT !.token = _build_access_token(PostToken(in.tok, in.exp))]
              ELSE [Say(r, <<Event("refresh", "password"), Event("exchange", "password")>>)
                      EXCEPT !.out = ExchangeFailure]
         ELSE Say(r, <<Event("refresh", "none"), Event("refreshed", None)>>)

\* GigaChatAsyncClient._aupdate_token
UpdateTokenAsync(cfg, r, in) ==
    IF cfg.credentials
    THEN IF in.ok
         THEN [Say(r, <<Event("refresh", "oauth"), Event("exchange", "oauth"),
                        Event("refreshed", in.tok)>>)
                 EXCEPT !.token = PostAuth(in.tok, in.exp)]
         ELSE [Say(r, <<Event("refresh", "oauth"), Event("exchange", "oauth")>>)
                 EXCEPT !.out = ExchangeFailure]
    ELSE IF cfg.user /\ cfg.password
         THEN IF in.ok
              THEN [Say(r, <<Event("refresh", "password"), Event("exchange", "password"),
                             Event("refreshed", in.tok)>>)
                      EXCEPT !.token = _build_access_token(PostToken(in.tok, in.exp))]
              ELSE [Say(r, <<Event("refresh", "password"), Event("exchange", "password")>>)
                      EXCEPT !.out = ExchangeFailure]
         ELSE Say(r, <<Event("refresh", "none"), Event("refreshed", None)>>)

\* GigaChatSyncClient._decorator
Decorator(cfg, tok, in) ==
    LET r0 == PathStart(tok)
        Rest(r) == LET u == UpdateTokenSync(cfg, r, in)
                   IN IF u.out = ExchangeFailure THEN u ELSE Return(Call(cfg, u, in))
    IN IF cfg.use_auth
       THEN IF r0.token.held
            THEN LET r1 == Call(cfg, Say(r0, <<Event("check", "valid")>>), in)
                 IN IF r1.last = "AuthenticationError"
                    THEN Rest(ResetTokenOf(r1))
                    ELSE Return(r1)
            ELSE Rest(Say(r0, <<Event("check", "invalid")>>))
       ELSE Return(Call(cfg, r0, in))

\* GigaChatAsyncClient._adecorator
ADecorator(cfg, tok, in) ==
    LET r0 == PathStart(tok)
        Rest(r) == LET u == UpdateTokenAsync(cfg, r, in)
                   IN IF u.out = ExchangeFailure THEN u ELSE Return(Call(cfg, u, in))
    IN IF cfg.use_auth
       THEN IF r0.token.held
            THEN LET r1 == Call(cfg, Say(r0, <<Event("check", "valid")>>), in)
                 IN IF r1.last = "AuthenticationError"
                    THEN Rest(ResetTokenOf(r1))
                    ELSE Return(r1)
            ELSE Rest(Say(r0, <<Event("check", "invalid")>>))
       ELSE Return(Call(cfg, r0, in))

\* an astream whose except clause keeps the rejected token
AStreamKeepsToken(cfg, tok, in) ==
    LET r0 == PathStart(tok)
        Rest(r) == LET u == UpdateTokenAsync(cfg, r, in)
                   IN IF u.out = ExchangeFailure THEN u ELSE Return(Call(cfg, u, in))
    IN IF cfg.use_auth
       THEN IF r0.token.held
            THEN LET r1 == Call(cfg, Say(r0, <<Event("check", "valid")>>), in)
                 IN IF r1.last = "AuthenticationError"
                    THEN Rest(Say(r1, <<Event("invalidate", None)>>))
                    ELSE Return(r1)
            ELSE Rest(Say(r0, <<Event("check", "invalid")>>))
       ELSE Return(Call(cfg, r0, in))

\* GigaChatSyncClient.stream, the stream read to its end; the attempt's
\* outcome is that of opening and checking the response
Stream(cfg, tok, in) ==
    LET r0 == PathStart(tok)
        Second(r) == Return(Call(cfg, r, in))
    IN IF cfg.use_auth
       THEN IF r0.token.held
            THEN LET r1 == Call(cfg, Say(r0, <<Event("check", "valid")>>), in)
                 IN IF r1.last = "OK"
                    THEN Return(r1)
                    ELSE IF r1.last = "AuthenticationError"
                         THEN LET u == UpdateTokenSync(cfg, ResetTokenOf(r1), in)
                              IN IF u.out = ExchangeFailure THEN u ELSE Second(u)
                         ELSE Return(r1)
            ELSE LET u == UpdateTokenSync(cfg, Say(r0, <<Event("check", "invalid")>>), in)
                 IN IF u.out = ExchangeFailure THEN u ELSE Second(u)
       ELSE Second(r0)

\* GigaChatAsyncClient.astream
AStream(cfg, tok, in) ==
    LET r0 == PathStart(tok)
        Second(r) == Return(Call(cfg, r, in))
    IN IF cfg.use_auth
       THEN IF r0.token.held
            THEN LET r1 == Call(cfg, Say(r0, <<Event("check", "valid")>>), in)
                 IN IF r1.last = "OK"
                    THEN Return(r1)
                    ELSE IF r1.last = "AuthenticationError"
                         THEN LET u == UpdateTokenAsync(cfg, ResetTokenOf(r1), in)
                              IN IF u.out = ExchangeFailure THEN u ELSE Second(u)
                         ELSE Return(r1)
            ELSE LET u == UpdateTokenAsync(cfg, Say(r0, <<Event("check", "invalid")>>), in)
                 IN IF u.out = ExchangeFailure THEN u ELSE Second(u)
       ELSE Second(r0)

\* what the claim compares: the steps, the outcome class and the final token
Observed(r) == [steps |-> r.steps, out |-> r.out, token |-> r.token]

InitPaths ==
    /\ settings \in Settings
    /\ _access_token \in ReachableTokens(settings)
    /\ pc = [c \in Calls |-> "idle"]
    /\ sub = [c \in Calls |-> "none"]
    /\ op = [c \in Calls |-> "chat"]
    /\ response = [c \in Calls |-> NoResponse]
    /\ lines = [c \in Calls |-> <<>>]
    /\ trace = [c \in Calls |-> <<>>]
    /\ outcome = [c \in Calls |-> "none"]
    /\ startTok = [c \in Calls |-> NoToken]
    /\ now = 0
    /\ checkedAt = [c \in Calls |-> 0]
    /\ inputs = <<>>
    /\ runs = <<>>

\* the transport's answers are fixed for the comparison
ChooseInputs ==
    /\ inputs = <<>>
    /\ \E in \in InputSet : inputs' = <<in>>
    /\ UNCHANGED <<client, now, checkedAt, runs>>

Ran(p, r) ==
    /\ inputs # <<>>
    /\ p \notin DOMAIN runs
    /\ runs' = runs @@ (p :> Observed(r))
    /\ UNCHANGED <<client, now, checkedAt, inputs>>

RunDecorator == Ran("_decorator", Decorator(settings, _access_token, inputs[1]))

RunADecorator == Ran("_adecorator", ADecorator(settings, _access_token, inputs[1]))

RunStream == Ran("stream", Stream(settings, _access_token, inputs[1]))

RunAStream == Ran("astream", AStream(settings, _access_token, inputs[1]))

NextPaths ==
    \/ ChooseInputs
    \/ RunDecorator
    \/ RunADecorator
    \/ RunStream
    \/ RunAStream

SpecPaths == InitPaths /\ [][NextPaths]_vars

\* C14: for one configuration, one initial token and one sequence of attempt
\* and refresh outcomes, _decorator, _adecorator, stream and astream perform
\* the same checks, attempts, invalidations and refreshes, surface the same
\* outcome and leave the same token.
C14_FourPathsAgree ==
    \A p \in DOMAIN runs, q \in DOMAIN runs : runs[p] = runs[q]

C14_Witness ==
    /\ DOMAIN runs = Paths
    /\ settings.use_auth /\ _access_token.held
    /\ inputs[1].attempts[1] = "AuthenticationError" /\ inputs[1].ok
    /\ runs["astream"].out = "OK"
    /\ runs["astream"].token = AccessToken(inputs[1].tok, inputs[1].exp)
    /\ Len(SelectSeq(runs["astream"].steps, LAMBDA e : e.ev = "attempt")) = 2
    /\ runs["_decorator"] = runs["astream"]

\* the tokens held between calls are those the comparison starts from
TokensAreReachable == _access_token \in ReachableTokens(settings)

(***************************************************************************)
(* Calls on a client whose clock advances                                  *)
(***************************************************************************)
\* time passes; nothing in the client reads it
Tick ==
    /\ now < MaxTime
    /\ now' = now + 1
    /\ UNCHANGED <<client, checkedAt, inputs, runs>>

NextClock ==
    \/ Tick
    \/ \E c \in SeqCalls :
         \/ \E o \in NonStreamOps : Start(c, o)
         \/ CheckAuth(c)
         \/ Attempt(c)
         \/ ResetToken(c)
         \/ UpdateToken(c)

SpecClock == Init /\ [][NextClock]_vars

\* the token the call found had expired when the call checked it
ExpiredAtCheck(c) == startTok[c].held /\ startTok[c].expires_at < checkedAt[c]

StepReject(c) ==
    \/ CheckAuth(c)
    \/ AttemptWith(c, {UNAUTHORIZED})
    \/ StreamOpenWith(c, {UNAUTHORIZED})
    \/ StreamCheck(c)
    \/ ResetToken(c)
    \/ UpdateTokenWith(c, {TRUE})

NextReject ==
    \E c \in SeqCalls :
        \/ \E o \in Ops : Start(c, o)
        \/ StepReject(c)

SpecReject ==
    /\ Init
    /\ [][NextReject]_vars
    /\ \A c \in SeqCalls : WF_vars(StepReject(c))

\* how a finished call looks when every attempt was rejected
RejectedInTheEnd(c) ==
    /\ outcome[c] = "AuthenticationError"
    /\ Result(c, Count(c, "result")) = "AuthenticationError"
    /\ IF ~settings.use_auth
       THEN Count(c, "attempt") = 1 /\ Count(c, "refresh") = 0
       ELSE IF startTok[c].held
            THEN Count(c, "attempt") = 2 /\ Count(c, "refresh") = 1
            ELSE Count(c, "attempt") = 1 /\ Count(c, "refresh") = 1

\* C16: when the server rejects every credential and every request and
\* exchange returns, every call finishes, and it finishes by raising
\* AuthenticationError: after two attempts and one refresh when it started
\* with authentication on and a token held, after one attempt and one refresh
\* when it started with authentication on and no token; it never makes a
\* third attempt or a second refresh and never ends as a success.
C16_RejectedCallTerminates ==
    /\ [](\A c \in Calls :
            /\ Count(c, "attempt") <= 2
            /\ Count(c, "refresh") <= 1
            /\ pc[c] = "done" => RejectedInTheEnd(c))
    /\ \A c \in SeqCalls : (pc[c] = "check") ~> (pc[c] = "done")

C16_Witness ==
    \E c \in Calls :
        /\ pc[c] = "done" /\ op[c] = "stream"
        /\ settings.use_auth /\ startTok[c].held
        /\ outcome[c] = "AuthenticationError"
        /\ Count(c, "attempt") = 2
        /\ Count(c, "refresh") = 1
        /\ Count(c, "invalidate") = 1

(***************************************************************************)
(* Two calls at once on one client                                         *)
(***************************************************************************)
\* a client with authentication on and a refresh strategy
InitConc ==
    /\ Init
    /\ settings.use_auth
    /\ settings.credentials \/ (settings.user /\ settings.password)

\* a caller makes its one non-streaming call
StartOnce(c, o) == pc[c] = "idle" /\ Start(c, o)

\* the steps of the two calls interleave, and nothing orders their reads and
\* writes of the token
NextConc ==
    \E c \in Calls :
        \/ \E o \in NonStreamOps : StartOnce(c, o)
        \/ CheckAuth(c)
        \/ Attempt(c)
        \/ ResetToken(c)
        \/ UpdateToken(c)

SpecConc == InitConc /\ [][NextConc]_vars

\* C19: whatever the interleaving of two calls on one client, each call makes
\* at most two attempts, one invalidation and one refresh, and it makes a
\* second attempt only after its own refresh; the token is not protected, so
\* a call's retry may carry no credential although its refresh installed one.
C19_EachCallStaysBounded ==
    \A c \in Calls :
        /\ Count(c, "attempt") <= 2
        /\ Count(c, "invalidate") <= 1
        /\ Count(c, "refresh") <= 1
        /\ Count(c, "exchange") <= 1
        /\ Count(c, "attempt") = 2 =>
             /\ Result(c, 1) = "AuthenticationError"
             /\ Count(c, "invalidate") = 1
             /\ Installed(c)
             /\ Sent(c, 2) \in {None, InstalledToken(c)}
                   \cup {InstalledToken(d) : d \in {e \in Calls : Installed(e)}}

\* both calls were rejected with the same token and both refreshed; one
\* call's invalidation fell between the other's refresh and retry
C19_Witness ==
    \E c \in Calls, d \in Calls :
        /\ c # d
        /\ pc[c] = "done" /\ pc[d] = "done"
        /\ startTok[c].held /\ startTok[d] = startTok[c]
        /\ Count(c, "attempt") = 2 /\ Count(d, "attempt") >= 1
        /\ Sent(c, 1) = startTok[c].access_token
        /\ Sent(d, 1) = startTok[c].access_token
        /\ FirstResultIs(c, "AuthenticationError")
        /\ FirstResultIs(d, "AuthenticationError")
        /\ Count(c, "exchange") = 1 /\ Installed(c)
        /\ Count(d, "exchange") = 1 /\ Installed(d)
        /\ Sent(c, 2) = None

====
